---------------------------- MODULE Spec2Model ----------------------------
(***************************************************************************)
(* OpenSAM gateway: the fixed-window rate limiters, the chat handlers      *)
(* (app router POST and pages-API handler) and the opportunity-search      *)
(* handlers (pages-API handler and app router GET) with their result and   *)
(* embedding caches.  Each handler is cut at its await points: one action  *)
(* per synchronous segment, as the single-threaded runtime runs it.        *)
(* Time is counted in abstract ticks; the window and the TTL are a few     *)
(* ticks long instead of 60000 ms and 300000 ms.                           *)
(***************************************************************************)
EXTENDS Integers, Sequences, FiniteSets, TLC

\* ------------------------------------------------------------------ bounds
\* A run exercises one route module (the variable module): the modules share
\* no state, each has its own limiter map and caches.
\* Last instant of the clock.
MaxTime == 3
\* RATE_LIMIT_WINDOW / SAM_RATE_LIMIT_WINDOW, in ticks (60000 ms in the source).
RATE_LIMIT_WINDOW == 1
\* RATE_LIMIT_MAX_REQUESTS of the chat limiters (20 in the source).
RATE_LIMIT_MAX_REQUESTS == 2
\* SAM_RATE_LIMIT_MAX_REQUESTS of the search limiters (100 in the source).
SAM_RATE_LIMIT_MAX_REQUESTS == 3

\* The handler instances that can be in flight at once on one path.
Slots == {1, 2}

ChatEndpoints == {"chatApp", "chatPages"}
SearchEndpoints == {"searchPages", "searchApp"}
Endpoints == ChatEndpoints \cup SearchEndpoints

VARIABLES
  now,            \* Date.now(), in ticks
  rateLimitMap,   \* per module: rateLimitMap / samRateLimitMap, identity -> {count, timestamp}
  window,         \* history: per module and identity, the window the calls fall in
  lastCall,       \* history: the last limiter call and what it returned
  recent,         \* history: per module and identity, the calls accepted at the last instants
  module,         \* the route module the requests of this run go to
  chat,           \* the chat handler instances
  search,         \* the search handler instances
  searchResultsCache,  \* per module: cache key -> {data, timestamp}
  embeddingCache, \* per module: the Map of cache key -> embedding, in insertion order
  orphans,        \* texts whose generateEmbeddings call is in flight after its request ended
  stored,         \* history: per module and cache key, the last write (when, what, from which upstream list)
  similarity,     \* the last call of cosineSimilarity: its arguments and its outcome
  store,          \* the browser's zustand store: llmConfig, chatSessions, currentSession
  localStorage,   \* the item 'opensam-store': <<>> or the state the persist middleware wrote
  exported,       \* <<>> or the object of the last exportData() string
  validation,     \* the call of validateLLMConfig: its position and what it resolved to
  retry           \* the call of retryWithBackoff: its arguments, position and outcome

limiterVars == <<rateLimitMap, window, lastCall, recent>>
cacheVars == <<searchResultsCache, embeddingCache, orphans, stored>>
clientVars == <<store, localStorage, exported, validation, retry>>
vars == <<now, rateLimitMap, window, lastCall, recent, module, chat, search,
          searchResultsCache, embeddingCache, orphans, stored, similarity,
          store, localStorage, exported, validation, retry>>

\* ------------------------------------------------------------ map helpers
\* Map.set(k, v)
MapSet(m, k, v) == [x \in (DOMAIN m) \cup {k} |-> IF x = k THEN v ELSE m[x]]
EmptyMap == [x \in {} |-> 0]
\* undefined, for a field that holds strings
Undefined == "undefined"

\* ------------------------------------------------------------ rate limiter
WindowSize(ep) == RATE_LIMIT_WINDOW
MaxRequests(ep) ==
  IF ep \in ChatEndpoints THEN RATE_LIMIT_MAX_REQUESTS ELSE SAM_RATE_LIMIT_MAX_REQUESTS

\* clientIp: the forwarded address, else 'unknown' (no x-real-ip / remoteAddress).
clientIp(xff) == IF xff # "" THEN xff ELSE "unknown"

\* now - clientData.timestamp > RATE_LIMIT_WINDOW
WindowPassedLate(clientData, t, W) == t - clientData.timestamp > W + 1
WindowPassed(clientData, t, W) == t - clientData.timestamp > W

\* clientData.count >= RATE_LIMIT_MAX_REQUESTS
LimitExceededOffByOne(clientData, N) == clientData.count > N
LimitExceeded(clientData, N) == clientData.count >= N

\* clientData.count++
IncrementLost(clientData) == clientData
IncrementTwice(clientData) == [clientData EXCEPT !.count = @ + 2]
Increment(clientData) == [clientData EXCEPT !.count = @ + 1]

\* checkRateLimit / checkSAMRateLimit: the verdict and the map after the call.
checkRateLimitTouching(map, ip, t, W, N) ==
  IF ip \notin DOMAIN map
    THEN [ok |-> TRUE, map |-> MapSet(map, ip, [count |-> 1, timestamp |-> t])]
  ELSE IF WindowPassed(map[ip], t, W)
    THEN [ok |-> TRUE, map |-> MapSet(map, ip, [count |-> 1, timestamp |-> t])]
  ELSE IF LimitExceeded(map[ip], N)
    THEN [ok |-> FALSE, map |-> MapSet(map, ip, [map[ip] EXCEPT !.timestamp = t])]
  ELSE [ok |-> TRUE, map |-> MapSet(map, ip, Increment(map[ip]))]
checkRateLimitClearing(map, ip, t, W, N) ==
  IF ip \notin DOMAIN map
    THEN [ok |-> TRUE, map |-> MapSet(map, ip, [count |-> 1, timestamp |-> t])]
  ELSE IF WindowPassed(map[ip], t, W)
    THEN [ok |-> TRUE, map |-> MapSet(EmptyMap, ip, [count |-> 1, timestamp |-> t])]
  ELSE IF LimitExceeded(map[ip], N)
    THEN [ok |-> FALSE, map |-> map]
  ELSE [ok |-> TRUE, map |-> MapSet(map, ip, Increment(map[ip]))]
checkRateLimit(map, ip, t, W, N) ==
  IF ip \notin DOMAIN map
    THEN [ok |-> TRUE, map |-> MapSet(map, ip, [count |-> 1, timestamp |-> t])]
  ELSE IF WindowPassed(map[ip], t, W)
    THEN [ok |-> TRUE, map |-> MapSet(map, ip, [count |-> 1, timestamp |-> t])]
  ELSE IF LimitExceeded(map[ip], N)
    THEN [ok |-> FALSE, map |-> map]
  ELSE [ok |-> TRUE, map |-> MapSet(map, ip, Increment(map[ip]))]

\* History of the calls of one identity: the window the call falls in (a
\* window is opened by the first call and by the first call made more than W
\* after the window start), the call's index in it and the calls accepted in it.
NoWindow == [start |-> 0, calls |-> 0, accepted |-> 0]
CallCap(N) == N + 1
Min(a, b) == IF a < b THEN a ELSE b
WindowAfterCall(w, t, W, N, ok) ==
  IF w.calls = 0 \/ t - w.start > W
    THEN [start |-> t, calls |-> 1, accepted |-> IF ok THEN 1 ELSE 0]
    ELSE [start |-> w.start,
          calls |-> Min(w.calls + 1, CallCap(N)),
          accepted |-> IF ok THEN w.accepted + 1 ELSE w.accepted]

\* History of the calls of one identity by instant: counts[k] is the number of
\* calls accepted at instant at - k, for the instant of the last call and the
\* W instants before it (the closed interval of length W that ends there).
NoRecent == [at |-> 0, counts |-> [k \in 0..RATE_LIMIT_WINDOW |-> 0]]
RecentAfterCall(h, t, W, ok) ==
  LET d == t - h.at
      shifted == [k \in 0..W |-> IF k >= d THEN h.counts[k - d] ELSE 0]
  IN [at |-> t, counts |-> [shifted EXCEPT ![0] = @ + (IF ok THEN 1 ELSE 0)]]
RECURSIVE SumUpTo(_, _)
SumUpTo(counts, k) == IF k < 0 THEN 0 ELSE counts[k] + SumUpTo(counts, k - 1)

\* ----------------------------------------------------------- search data
\* CACHE_DURATION, in ticks (5 * 60 * 1000 ms in the source).
CACHE_DURATION == 2
\* The size above which the sweep cuts the embedding cache (1000 in the
\* source) and the number of entries it keeps (500 in the source).
EMBEDDING_CACHE_MAX == 2
EMBEDDING_CACHE_KEEP == 1
\* The number of opportunities a ranked result keeps (25 in the source).
TOP_N == 2

\* The opportunity source's records: id, the text that is embedded (title,
\* description, synopsis) and relevanceScore: 0 as searchSAMOpportunities maps them.
Opp(i, t) == [id |-> i, text |-> t, relevanceScore |-> 0]
\* The longest list the opportunity source returns, and the texts of its records.
MaxOpps == 3
OppTexts == {"t1", "t2", "openai:a"}
\* What the opportunity source may return on success.
SamLists == { <<Opp(1, "t1"), Opp(2, "t2")>>, <<Opp(2, "t2")>> }

\* The embedding upstream: the vector of a text.
EmbeddingOf(text) ==
  CASE text = "a" -> <<1, 0>>
    [] text = "t1" -> <<0, 1>>
    [] OTHER -> <<1, 1>>

\* ---- the arithmetic of cosineSimilarity: IEEE-754 binary floating point,
\* round to nearest, ties to even, with Precision significant bits (53 in the
\* source's doubles).  A number is held as its multiple of 2^-Scale.
Precision == 5
Scale == 7
Pow2(k) == 2 ^ k
One == Pow2(Scale)
MaxOf(S) == CHOOSE x \in S : \A y \in S : y <= x
\* The spacing of the representable numbers around num / den (num >= 0, den > 0).
Ulp(num, den) ==
  LET ks == {k \in 0..Scale : Pow2(Precision - 1 + k) * den <= num * One}
  IN IF ks = {} THEN 1 ELSE Pow2(MaxOf(ks))
\* num / den rounded to a representable number.
RoundNearest(num, den) ==
  LET u == Ulp(num, den)
      d == den * u
      q == (num * One) \div d
      r == (num * One) % d
  IN IF 2 * r > d \/ (2 * r = d /\ q % 2 = 1) THEN (q + 1) * u ELSE q * u
\* Math.sqrt(n) of a whole number n, correctly rounded.
Sqrt(n) ==
  LET X == n * One * One
      ks == {k \in 0..Scale : Pow2(Precision - 1 + k) * Pow2(Precision - 1 + k) <= X}
      u == IF ks = {} THEN 1 ELSE Pow2(MaxOf(ks))
      q == CHOOSE m \in 0..Pow2(Precision) :
             (m * u) * (m * u) <= X /\ X < ((m + 1) * u) * ((m + 1) * u)
      mid == ((2 * q + 1) * u) * ((2 * q + 1) * u)
  IN IF mid < 4 * X \/ (mid = 4 * X /\ q % 2 = 1) THEN (q + 1) * u ELSE q * u
\* x * y of two numbers that are not negative.
Times(x, y) == RoundNearest(x * y, One * One)
\* n / y of a whole number n and a number y > 0.
DividedBy(n, y) ==
  IF n < 0 THEN 0 - RoundNearest((0 - n) * One, y) ELSE RoundNearest(n * One, y)

\* The loop of cosineSimilarity runs over the indices of a: the sum of
\* a[i] * b[i] (whole numbers here, which the arithmetic adds exactly).
RECURSIVE Dot(_, _, _)
Dot(a, b, n) == IF n = 0 THEN 0 ELSE a[n] * b[n] + Dot(a, b, n - 1)

\* a.length !== b.length
LengthsDifferOnlyShorter(a, b) == Len(b) < Len(a)
LengthsDiffer(a, b) == Len(a) # Len(b)

\* cosineSimilarity(a, b): throws on unequal lengths, else
\* dotProduct / (Math.sqrt(normA) * Math.sqrt(normB)); a division 0 / 0 is NaN.
\* (Without the length test, an index past the end of b reads undefined and
\* the sums are NaN; a longer b is read up to a.length.)
DimensionMismatch == [kind |-> "thrown", value |-> 0]
NaN == [kind |-> "NaN", value |-> 0]
cosineSimilarity(a, b) ==
  IF LengthsDiffer(a, b) THEN DimensionMismatch
  ELSE IF Len(b) < Len(a) THEN NaN
  ELSE LET n == Len(a)
           dotProduct == Dot(a, b, n)
           normA == Dot(a, a, n)
           normB == Dot(b, b, n)
           product == Times(Sqrt(normA), Sqrt(normB))
       IN IF product = 0 THEN NaN
          ELSE [kind |-> "number", value |-> DividedBy(dotProduct, product)]

\* The vectors a call of cosineSimilarity is given: up to MaxDim components
\* between -MaxComponent and MaxComponent.
MaxDim == 2
MaxComponent == 1
Components == (0 - MaxComponent)..MaxComponent
Vectors == UNION {[1..n -> Components] : n \in 0..MaxDim}
NoSimilarity == [called |-> FALSE, a |-> <<>>, b |-> <<>>, result |-> NaN]

\* Array.prototype.sort with (a, b) => b.relevanceScore - a.relevanceScore:
\* stable, descending.
RECURSIVE InsertByScoreUnstable(_, _)
InsertByScoreUnstable(sorted, o) ==
  IF sorted = <<>> THEN <<o>>
  ELSE IF Head(sorted).relevanceScore > o.relevanceScore
    THEN <<Head(sorted)>> \o InsertByScoreUnstable(Tail(sorted), o)
    ELSE <<o>> \o sorted
RECURSIVE InsertByScore(_, _)
InsertByScore(sorted, o) ==
  IF sorted = <<>> THEN <<o>>
  ELSE IF Head(sorted).relevanceScore >= o.relevanceScore
    THEN <<Head(sorted)>> \o InsertByScore(Tail(sorted), o)
    ELSE <<o>> \o sorted
RECURSIVE SortByScore(_)
SortByScore(list) ==
  IF list = <<>> THEN <<>>
  ELSE InsertByScore(SortByScore(SubSeq(list, 1, Len(list) - 1)), list[Len(list)])

\* .slice(0, n)
Slice(list, n) == SubSeq(list, 1, Min(Len(list), n))
\* .filter(o => o.relevanceScore > 0)
RECURSIVE FilterPositive(_)
FilterPositive(list) ==
  IF list = <<>> THEN <<>>
  ELSE (IF Head(list).relevanceScore > 0 THEN <<Head(list)>> ELSE <<>>)
       \o FilterPositive(Tail(list))

\* The query parameters, in the order of the URL: <<name, value>> pairs.
QueryGet(query, name) ==
  IF \E i \in 1..Len(query) : query[i][1] = name
    THEN query[CHOOSE i \in 1..Len(query) :
                 query[i][1] = name /\ \A k \in 1..(i - 1) : query[k][1] # name][2]
    ELSE Undefined

\* JSON.stringify of an object: its defined fields, in insertion order.
RECURSIVE JSONstringify(_)
JSONstringify(fields) ==
  IF fields = <<>> THEN <<>>
  ELSE (IF Head(fields)[2] = Undefined THEN <<>> ELSE <<Head(fields)>>)
       \o JSONstringify(Tail(fields))

OrDefault(v, d) == IF v = Undefined \/ v = "" THEN d ELSE v

\* filters of the pages handler: the object literal, field by field.
FiltersOfQueryOrder(query) == query
FiltersPages(query) ==
  << <<"keyword", QueryGet(query, "q")>>,
     <<"startDate", QueryGet(query, "startDate")>>,
     <<"endDate", QueryGet(query, "endDate")>>,
     <<"naicsCode", QueryGet(query, "naicsCode")>>,
     <<"state", QueryGet(query, "state")>>,
     <<"agency", QueryGet(query, "agency")>>,
     <<"type", QueryGet(query, "type")>>,
     <<"setAside", QueryGet(query, "setAside")>>,
     <<"active", IF OrDefault(QueryGet(query, "active"), "") = "" THEN Undefined
                 ELSE IF QueryGet(query, "active") = "true" THEN "true" ELSE "false">>,
     <<"limit", OrDefault(QueryGet(query, "limit"), "50")>>,
     <<"offset", OrDefault(QueryGet(query, "offset"), "0")>> >>
\* filters of the app router GET: { keyword, limit: 50 }.
FiltersApp(query) ==
  << <<"keyword", OrDefault(QueryGet(query, "keyword"), "")>>, <<"limit", "50">> >>
FiltersOfWholeQuery(ep, query) == query
Filters(ep, query) == IF ep = "searchPages" THEN FiltersPages(query) ELSE FiltersApp(query)
\* cacheKey = JSON.stringify(filters)
CacheKey(ep, query) == JSONstringify(Filters(ep, query))
Keyword(ep, query) ==
  IF ep = "searchPages" THEN OrDefault(QueryGet(query, "q"), "")
  ELSE OrDefault(QueryGet(query, "keyword"), "")

\* cachedResult && Date.now() - cachedResult.timestamp < CACHE_DURATION
CacheValidInclusive(cache, key, t) ==
  key \in DOMAIN cache /\ t - cache[key].timestamp <= CACHE_DURATION
CacheValid(cache, key, t) ==
  key \in DOMAIN cache /\ t - cache[key].timestamp < CACHE_DURATION

\* The sweep's test: now - value.timestamp > CACHE_DURATION
SweepExpiredEarly(entry, t) == t - entry.timestamp > 0
SweepExpired(entry, t) == t - entry.timestamp > CACHE_DURATION

NoData == [opportunities |-> <<>>, total |-> 0]
NoLookup == [done |-> FALSE, key |-> <<>>, had |-> FALSE, age |-> 0, present |-> FALSE,
             data |-> NoData, upstream |-> <<>>]
IdleSearch ==
  [ep |-> "none", pc |-> "idle", method |-> "GET", xff |-> "", query |-> <<>>,
   semantic |-> FALSE, auth |-> FALSE, samKey |-> FALSE,
   allowed |-> FALSE, steps |-> <<>>, calls |-> <<>>,
   started |-> 0, lookup |-> NoLookup, opportunities |-> <<>>, pending |-> {},
   fetched |-> FALSE, vectors |-> EmptyMap, embedFailed |-> FALSE, ranked |-> FALSE,
   cached |-> FALSE, responses |-> 0, status |-> 0, error |-> Undefined, data |-> NoData]

\* ------------------------------------------------------------------ clock
Tick ==
  /\ now < MaxTime
  /\ now' = now + 1
  /\ UNCHANGED <<limiterVars, cacheVars, module, similarity, clientVars, chat, search>>

\* ------------------------------------------------------------- chat paths
\* messages of the request body: undefined, not an array, or an array of turns.
MessagesValues ==
  { [kind |-> "undefined", items |-> <<>>],
    [kind |-> "string", items |-> <<>>],
    [kind |-> "array", items |-> <<>>],
    [kind |-> "array", items |-> <<"user">>] }
isArray(messages) == messages.kind = "array"

Providers == {"openai", "anthropic", "huggingface"}

\* A well-formed request body, and the bodies with one or two fields spoilt.
\* json: whether req.json() can parse the body (app router).
\* model holds the ':'-separated segments of the model string (<<>> when the
\* field is missing); provider is the separate field of the app router body.
GoodBody(p) ==
  [json |-> TRUE, apiKey |-> TRUE, messages |-> [kind |-> "array", items |-> <<"user">>],
   model |-> <<p, "m">>, provider |-> p, test |-> FALSE]
ChatBodies(ep) ==
  LET good == {GoodBody(p) : p \in Providers}
      base == GoodBody("openai")
  IN good
     \cup {[base EXCEPT !.apiKey = FALSE]}
     \cup {[base EXCEPT !.messages = m] : m \in MessagesValues}
     \cup {[base EXCEPT !.model = <<>>]}
     \cup {[base EXCEPT !.provider = "cohere", !.model = <<"cohere", "m">>]}
     \cup (IF ep = "chatPages"
             THEN {[base EXCEPT !.model = <<"openai">>], [base EXCEPT !.test = TRUE]}
             ELSE {[base EXCEPT !.json = FALSE]})

NoBody == [json |-> TRUE, apiKey |-> FALSE, messages |-> [kind |-> "undefined", items |-> <<>>],
           model |-> <<>>, provider |-> Undefined, test |-> FALSE]
NoUsage == [defined |-> FALSE, prompt_tokens |-> 0, completion_tokens |-> 0, total_tokens |-> 0]
NoResult == [content |-> Undefined, usage |-> NoUsage, model |-> Undefined, provider |-> Undefined]
NoReply == [ok |-> FALSE, status |-> 0, transport |-> FALSE, parseable |-> FALSE,
            usage |-> FALSE, text |-> Undefined]

IdleChat ==
  [ep |-> "none", pc |-> "idle", method |-> "POST", xff |-> "", body |-> NoBody,
   allowed |-> FALSE,
   steps |-> <<>>, calls |-> <<>>, request |-> <<>>, reply |-> NoReply,
   responses |-> 0, status |-> 0, error |-> Undefined, result |-> NoResult]

\* What the upstream provider answers: the fetch rejects (transport), or it
\* resolves with a status; a 2xx body holds the generated text and maybe a
\* usage block; a non-2xx body is JSON with an error message, or not JSON.
ProviderReplies ==
  { [ok |-> TRUE, status |-> 200, transport |-> FALSE, parseable |-> TRUE,
     usage |-> TRUE, text |-> "hello"],
    [ok |-> TRUE, status |-> 200, transport |-> FALSE, parseable |-> TRUE,
     usage |-> FALSE, text |-> "hello"],
    [ok |-> FALSE, status |-> 503, transport |-> FALSE, parseable |-> TRUE,
     usage |-> FALSE, text |-> Undefined],
    [ok |-> FALSE, status |-> 503, transport |-> FALSE, parseable |-> FALSE,
     usage |-> FALSE, text |-> Undefined],
    [ok |-> FALSE, status |-> 0, transport |-> TRUE, parseable |-> FALSE,
     usage |-> FALSE, text |-> Undefined] }
\* The usage block of an upstream body that reports one.
Reported == [prompt |-> 3, completion |-> 4]

\* ---- the browser side: the zustand store with its persist middleware.
\* Of AppState the model keeps llmConfig (provider, model, apiKey),
\* chatSessions and currentSession; uuids counts the ids generateUUID gave out.
LlmApiKey == "sk-llm-key"
DEFAULT_LLM_CONFIG == [provider |-> "openai", model |-> "gpt-4o-mini", apiKey |-> ""]
\* currentSession: null is <<>>, a session is <<session>>.
initialState ==
  [llmConfig |-> DEFAULT_LLM_CONFIG, chatSessions |-> <<>>, currentSession |-> <<>>,
   uuids |-> 0]
\* llmProviders[provider].models[0]
FirstModel(provider) ==
  CASE provider = "openai" -> "gpt-4o"
    [] provider = "anthropic" -> "claude-3-opus"
    [] OTHER -> "microsoft/DialoGPT-large"

\* partialize: what the persist middleware writes to localStorage.
partialize(state) ==
  [llmConfig |-> [state.llmConfig EXCEPT !.apiKey = ""],
   chatSessions |-> state.chatSessions]

\* { ...object, ...updates }
Spread(object, updates) ==
  [f \in DOMAIN object |-> IF f \in DOMAIN updates THEN updates[f] ELSE object[f]]

NoValidation == [pc |-> "idle", fetched |-> FALSE, ok |-> FALSE]
NoRetry ==
  [pc |-> "idle", maxRetries |-> 0, baseDelay |-> 0, i |-> 0, calls |-> 0,
   waits |-> <<>>, errors |-> <<>>, lastError |-> Undefined, outcome |-> Undefined,
   value |-> Undefined]

NoCall == [ep |-> "none", ip |-> "", index |-> 0, ok |-> FALSE, count |-> 0, prev |-> 0]

\* The state after the modules are loaded: empty maps, no handler running.
Loaded ==
  /\ now = 0
  /\ rateLimitMap = [ep \in Endpoints |-> EmptyMap]
  /\ window = [ep \in Endpoints |-> [ip \in {"ip1", "unknown"} |-> NoWindow]]
  /\ lastCall = NoCall
  /\ recent = [ep \in Endpoints |-> [ip \in {"ip1", "unknown"} |-> NoRecent]]
  /\ chat = [r \in Slots |-> IdleChat]
  /\ search = [r \in Slots |-> IdleSearch]
  /\ searchResultsCache = [ep \in SearchEndpoints |-> EmptyMap]
  /\ embeddingCache = [ep \in SearchEndpoints |-> <<>>]
  /\ orphans = {}
  /\ stored = [ep \in SearchEndpoints |-> EmptyMap]
  /\ similarity = NoSimilarity
  /\ store = initialState
  /\ localStorage = <<>>
  /\ exported = <<>>
  /\ validation = NoValidation
  /\ retry = NoRetry

Init == Loaded /\ module \in Endpoints

\* The limiter call of a handler: the verdict, the map after it, and the
\* history of the identity's window (prev: the calls of the window that the
\* call closed, when it opens a new one).
Limit(ep, xff) ==
  LET ip == clientIp(xff)
      res == checkRateLimit(rateLimitMap[ep], ip, now, WindowSize(ep), MaxRequests(ep))
      w == WindowAfterCall(window[ep][ip], now, WindowSize(ep), MaxRequests(ep), res.ok)
  IN [ok |-> res.ok, map |-> res.map, win |-> w,
      rec |-> RecentAfterCall(recent[ep][ip], now, WindowSize(ep), res.ok),
      call |-> [ep |-> ep, ip |-> ip, index |-> w.calls, ok |-> res.ok,
                count |-> res.map[ip].count,
                prev |-> IF w.calls = 1 THEN window[ep][ip].calls ELSE 0]]

\* A call of the limiter of module ep by a caller with forwarded address xff.
Limited(ep, xff, l) ==
  /\ rateLimitMap' = [rateLimitMap EXCEPT ![ep] = l.map]
  /\ window' = [window EXCEPT ![ep][clientIp(xff)] = l.win]
  /\ lastCall' = l.call
  /\ UNCHANGED recent

\* ---- the provider adapters: the messages of the request they send.  A turn
\* of the request: the role (or transcript prefix) it is sent under, and the
\* role the caller gave it ("prompt" for the SYSTEM_PROMPT of the module).
SentAs(role, from) == [role |-> role, from |-> from]
\* formatOpenAIMessages: the system prompt, then every message, as assistant
\* when its role is 'assistant' and as user otherwise.
formatOpenAIMessages(messages) ==
  <<SentAs("system", "prompt")>>
  \o [i \in 1..Len(messages) |->
        SentAs(IF messages[i] = "assistant" THEN "assistant" ELSE "user", messages[i])]
\* messages.filter(msg => msg.role !== 'system')
RECURSIVE FilterNotSystem(_)
FilterNotSystem(messages) ==
  IF messages = <<>> THEN <<>>
  ELSE (IF Head(messages) # "system" THEN <<Head(messages)>> ELSE <<>>)
       \o FilterNotSystem(Tail(messages))
\* formatAnthropicMessages of the app router: the prompt text, then one
\* "Assistant:" or "Human:" line per message that is not a system message.
formatAnthropicMessagesApp(messages) ==
  LET kept == FilterNotSystem(messages) IN
    <<SentAs("system", "prompt")>>
    \o [i \in 1..Len(kept) |->
          SentAs(IF kept[i] = "assistant" THEN "Assistant" ELSE "Human", kept[i])]
\* formatAnthropicMessages of the pages handler: system: SYSTEM_PROMPT, and
\* the messages that are not system messages as assistant or user.
formatAnthropicMessagesPages(messages) ==
  LET kept == FilterNotSystem(messages) IN
    <<SentAs("system", "prompt")>>
    \o [i \in 1..Len(kept) |->
          SentAs(IF kept[i] = "assistant" THEN "assistant" ELSE "user", kept[i])]
\* formatHuggingFaceMessages: the prompt text, then one line per message,
\* "Human:" when its role is 'user' and "Assistant:" otherwise.
formatHuggingFaceMessages(messages) ==
  <<SentAs("system", "prompt")>>
  \o [i \in 1..Len(messages) |->
        SentAs(IF messages[i] = "user" THEN "Human" ELSE "Assistant", messages[i])]
\* The messages of the request the adapter of the provider sends.
FormatMessages(ep, provider, messages) ==
  CASE provider = "openai" -> formatOpenAIMessages(messages)
    [] provider = "anthropic" /\ ep = "chatApp" -> formatAnthropicMessagesApp(messages)
    [] provider = "anthropic" /\ ep = "chatPages" -> formatAnthropicMessagesPages(messages)
    [] OTHER -> formatHuggingFaceMessages(messages)

\* ---- the provider adapters: the normalized LLMResponse of a successful reply
UsageOf(p, c) ==
  [defined |-> TRUE, prompt_tokens |-> p, completion_tokens |-> c, total_tokens |-> p + c]

\* callOpenAI: usage is the upstream's usage block, passed through.  (model is
\* data.model of the upstream body, taken to echo the requested model.)
callOpenAI(modelName, reply) ==
  [content |-> reply.text,
   usage |-> IF reply.usage THEN UsageOf(Reported.prompt, Reported.completion) ELSE NoUsage,
   model |-> modelName, provider |-> "openai"]

\* callAnthropic of the app router: data.usage?.prompt_tokens || 0.
callAnthropicApp(modelName, reply) ==
  [content |-> reply.text,
   usage |-> IF reply.usage THEN UsageOf(Reported.prompt, Reported.completion)
                            ELSE UsageOf(0, 0),
   model |-> modelName, provider |-> "anthropic"]

\* callAnthropic of the pages handler: data.usage.input_tokens, which throws a
\* TypeError when the body has no usage block.
callAnthropicPagesThrows(reply) == ~reply.usage
callAnthropicPages(modelName, reply) ==
  [content |-> reply.text,
   usage |-> UsageOf(Reported.prompt, Reported.completion),
   model |-> modelName, provider |-> "anthropic"]

\* callHuggingFace: no token counts, usage is all zero.
callHuggingFace(modelName, reply) ==
  [content |-> reply.text, usage |-> UsageOf(0, 0),
   model |-> modelName, provider |-> "huggingface"]

\* The message of the Error an adapter throws on a non-2xx answer.
\* app router: error = await response.json().catch(() => ({})), then
\* error.error?.message || response.statusText
ErrorMessageApp(reply) == IF reply.parseable THEN "bodyMessage" ELSE "statusText"
\* pages: error = await response.json() with no catch: a body that is not JSON
\* makes json() reject, and the SyntaxError is what the handler catches.
ErrorMessagePages(reply) == IF reply.parseable THEN "bodyMessage" ELSE "parseError"
\* error.message of what the adapter throws.
ThrownMessage(ep, reply) ==
  IF reply.transport THEN "fetchFailed"
  ELSE IF ~reply.ok
    THEN (IF ep = "chatApp" THEN ErrorMessageApp(reply) ELSE ErrorMessagePages(reply))
  ELSE "typeError"

\* Whether the handler's awaits stand inside its try block, whose catch
\* answers 500 with error.message.
HandlerCatchesAppOnly(ep) == ep \in {"chatApp", "searchApp"}
HandlerCatches(ep) == ep \in {"chatApp", "chatPages", "searchPages", "searchApp"}

\* The adapter's outcome on the upstream reply: thrown (500) or a result (200).
AdapterThrows(ep, provider, reply) ==
  \/ ~reply.ok
  \/ ep = "chatPages" /\ provider = "anthropic" /\ callAnthropicPagesThrows(reply)
AdapterResult(ep, provider, modelName, reply) ==
  CASE provider = "openai" -> callOpenAI(modelName, reply)
    [] provider = "anthropic" /\ ep = "chatApp" -> callAnthropicApp(modelName, reply)
    [] provider = "anthropic" /\ ep = "chatPages" -> callAnthropicPages(modelName, reply)
    [] OTHER -> callHuggingFace(modelName, reply)

\* ---- validation
\* POST of the app router: the status of the first failed check, 0 when the
\* body passes.
MessagesInvalidApp(messages) ==
  messages.kind = "undefined" \/ ~isArray(messages) \/ Len(messages.items) = 0
ValidateApp(body) ==
  IF ~body.apiKey THEN 400
  ELSE IF MessagesInvalidApp(body.messages) THEN 400
  ELSE IF body.model = <<>> THEN 400
  ELSE IF body.provider \notin Providers THEN 400
  ELSE 0

\* handler of the pages API: model is "provider:model"; 200 is the test mode.
MessagesInvalidPages(messages) ==
  messages.kind = "undefined" \/ ~isArray(messages)
PagesProvider(body) == IF Len(body.model) >= 1 THEN body.model[1] ELSE ""
PagesModelName(body) == IF Len(body.model) >= 2 THEN body.model[2] ELSE ""
ValidatePages(body) ==
  IF body.model = <<>> \/ MessagesInvalidPages(body.messages) THEN 400
  ELSE IF PagesProvider(body) = "" \/ PagesModelName(body) = "" THEN 400
  ELSE IF PagesProvider(body) \notin Providers THEN 400
  ELSE IF ~body.apiKey THEN 401
  ELSE IF body.test THEN 200
  ELSE 0

ProviderOf(ep, body) == IF ep = "chatApp" THEN body.provider ELSE PagesProvider(body)
ModelOf(ep, body) == IF ep = "chatApp" THEN "m" ELSE PagesModelName(body)

\* The order of the first checks of the pages handler: the limiter's verdict
\* (429) before the validation of the body; status 0 lets the request go on.
ChatPagesOutcomeValidateFirst(ok, v) ==
  IF v # 0 /\ v # 200 THEN [status |-> v, steps |-> <<"method", "validate">>]
  ELSE IF ~ok THEN [status |-> 429, steps |-> <<"method", "validate", "rateLimit">>]
  ELSE [status |-> v, steps |-> <<"method", "validate", "rateLimit">>]
ChatPagesOutcome(ok, v) ==
  IF ~ok THEN [status |-> 429, steps |-> <<"method", "rateLimit">>]
  ELSE [status |-> v, steps |-> <<"method", "rateLimit", "validate">>]

\* An error thrown inside the handler: the catch answers 500 with the
\* error's message; outside a try block the error leaves the handler and no
\* response is sent.
Thrown(q, message, steps) ==
  IF HandlerCatches(q.ep)
    THEN [q EXCEPT !.pc = "done", !.status = 500, !.error = message, !.steps = steps,
                   !.responses = 1]
    ELSE [q EXCEPT !.pc = "done", !.steps = steps]

\* ---- POST of the app router (chat/route.ts)
\* checkRateLimit, then await req.json().
ChatAppArrive(r, xff, body) ==
  /\ module = "chatApp"
  /\ chat[r].pc \in {"idle", "done"}
  /\ LET l == Limit("chatApp", xff)
         q == [IdleChat EXCEPT !.ep = "chatApp", !.xff = xff, !.body = body,
                               !.allowed = l.ok, !.steps = <<"rateLimit">>]
     IN /\ Limited("chatApp", xff, l)
        /\ chat' = [chat EXCEPT ![r] =
                      IF l.ok THEN [q EXCEPT !.pc = "awaitBody"]
                              ELSE [q EXCEPT !.pc = "done", !.status = 429, !.responses = 1]]
  /\ UNCHANGED <<now, module, similarity, clientVars, search, cacheVars>>

\* The body is parsed: validation, then the adapter's fetch is issued.
ChatAppBody(r) ==
  /\ chat[r].pc = "awaitBody"
  /\ LET q == chat[r]
         v == ValidateApp(q.body)
         s == q.steps \o <<"parseBody", "validate">>
     IN chat' = [chat EXCEPT ![r] =
                   IF ~q.body.json
                     THEN Thrown(q, "parseError", q.steps \o <<"parseBody">>)
                   ELSE IF v # 0
                     THEN [q EXCEPT !.pc = "done", !.status = v, !.steps = s, !.responses = 1]
                     ELSE [q EXCEPT !.pc = "awaitProvider",
                                    !.steps = s \o <<"upstream">>,
                                    !.calls = <<q.body.provider>>,
                                    !.request = FormatMessages("chatApp", q.body.provider,
                                                               q.body.messages.items)]]
  /\ UNCHANGED <<now, limiterVars, module, similarity, clientVars, search, cacheVars>>

\* ---- handler of the pages API (part_001)
\* Method guard, checkRateLimit, validation, test mode, then the adapter's fetch.
ChatPagesArrive(r, method, xff, body) ==
  /\ module = "chatPages"
  /\ chat[r].pc \in {"idle", "done"}
  /\ IF method # "POST"
       THEN /\ chat' = [chat EXCEPT ![r] =
                          [IdleChat EXCEPT !.ep = "chatPages", !.method = method,
                                           !.xff = xff, !.body = body, !.pc = "done",
                                           !.status = 405, !.steps = <<"method">>,
                                           !.responses = 1]]
            /\ UNCHANGED limiterVars
       ELSE LET l == Limit("chatPages", xff)
                o == ChatPagesOutcome(l.ok, ValidatePages(body))
                q == [IdleChat EXCEPT !.ep = "chatPages", !.method = method,
                                      !.xff = xff, !.body = body,
                                      !.allowed = l.ok, !.steps = o.steps]
            IN /\ Limited("chatPages", xff, l)
               /\ chat' = [chat EXCEPT ![r] =
                    IF o.status # 0
                      THEN [q EXCEPT !.pc = "done", !.status = o.status, !.responses = 1]
                      ELSE [q EXCEPT !.pc = "awaitProvider",
                                     !.steps = o.steps \o <<"upstream">>,
                                     !.calls = <<PagesProvider(body)>>,
                                     !.request = FormatMessages("chatPages", PagesProvider(body),
                                                                body.messages.items)]]
  /\ UNCHANGED <<now, module, similarity, clientVars, search, cacheVars>>

\* ---- both: the provider's answer arrives
ChatProviderReply(r, reply) ==
  /\ chat[r].pc = "awaitProvider"
  /\ LET q == chat[r]
         p == ProviderOf(q.ep, q.body)
     IN chat' = [chat EXCEPT ![r] =
                   IF AdapterThrows(q.ep, p, reply)
                     THEN Thrown([q EXCEPT !.reply = reply], ThrownMessage(q.ep, reply), q.steps)
                     ELSE [q EXCEPT !.pc = "done", !.status = 200, !.reply = reply,
                                    !.responses = 1,
                                    !.result = AdapterResult(q.ep, p, ModelOf(q.ep, q.body), reply)]]
  /\ UNCHANGED <<now, limiterVars, module, similarity, clientVars, search, cacheVars>>

\* ---------------------------------------------------------- search paths
\* The embedding cache is a Map: <<key, value>> pairs in insertion order.
EmbHas(cache, key) == \E i \in 1..Len(cache) : cache[i][1] = key
EmbGet(cache, key) == cache[CHOOSE i \in 1..Len(cache) : cache[i][1] = key][2]
EmbSet(cache, key, value) ==
  IF EmbHas(cache, key)
    THEN [i \in 1..Len(cache) |-> IF cache[i][1] = key THEN <<key, value>> ELSE cache[i]]
    ELSE Append(cache, <<key, value>>)

\* generateEmbeddings caches under `${provider}:${text}` (the provider of the
\* model's requests is 'openai').
EmbeddingKey(text) == "openai:" \o text

\* performSemanticSearch of the pages handler, once every embedding has been
\* obtained: score each opportunity, sort descending, keep the top 25.
\* vectors holds what the awaited generateEmbeddings calls returned.
Scored(vectors, query, o) ==
  [o EXCEPT !.relevanceScore = cosineSimilarity(vectors[query], vectors[o.text]).value]
RankPages(vectors, query, opportunities) ==
  Slice(SortByScore([i \in 1..Len(opportunities) |-> Scored(vectors, query, opportunities[i])]),
        TOP_N)

\* performSemanticSearch of the app router: the opportunity's embedding is
\* looked up in the cache under the bare text `${title} ${description}`;
\* without it the score is 0; then filter(score > 0) and sort.  No slice.
ScoredApp(cache, queryEmbedding, o) ==
  IF EmbHas(cache, o.text)
    THEN [o EXCEPT !.relevanceScore = cosineSimilarity(queryEmbedding, EmbGet(cache, o.text)).value]
    ELSE [o EXCEPT !.relevanceScore = 0]
RankApp(cache, queryEmbedding, opportunities) ==
  SortByScore(FilterPositive(
    [i \in 1..Len(opportunities) |-> ScoredApp(cache, queryEmbedding, opportunities[i])]))

\* What the handler puts in the cache: the response it built.
\* pages: { opportunities: finalOpportunities, totalRecords: opportunities.length }
PayloadPages(final, opportunities) ==
  [opportunities |-> final, total |-> Len(opportunities)]
\* app: { totalCount: results.length, opportunities: results }
PayloadApp(final, opportunities) ==
  [opportunities |-> final, total |-> Len(final)]
Payload(ep, final, opportunities) ==
  IF ep = "searchPages" THEN PayloadPages(final, opportunities)
  ELSE PayloadApp(final, opportunities)

\* The timestamp of the entry: Date.now() at the write in the pages handler,
\* the `now` read before the cache lookup in the app router.
StoreTimestamp(q) == IF q.ep = "searchPages" THEN now ELSE q.started

\* Build the response, searchResultsCache.set(cacheKey, ...), answer 200.
Respond(r, q, final) ==
  LET key == CacheKey(q.ep, q.query)
      payload == Payload(q.ep, final, q.opportunities)
  IN /\ searchResultsCache' = [searchResultsCache EXCEPT ![q.ep] =
            MapSet(@, key, [data |-> payload, timestamp |-> StoreTimestamp(q)])]
     /\ stored' = [stored EXCEPT ![q.ep] =
            MapSet(@, key, [at |-> now, data |-> payload, upstream |-> q.opportunities,
                            query |-> q.query])]
     /\ search' = [search EXCEPT ![r] =
            [q EXCEPT !.pc = "done", !.status = 200, !.data = payload, !.pending = {},
                      !.responses = 1, !.steps = @ \o <<"cacheWrite">>]]

\* The request fails with a thrown error (q.error is its message): the catch
\* logs the error (pages) and answers 500 with the message, nothing is cached;
\* outside a try block the error leaves the handler.
FailCaching(r, q) ==
  /\ search' = [search EXCEPT ![r] =
       IF HandlerCatches(q.ep)
         THEN [q EXCEPT !.pc = "done", !.status = 500, !.pending = {}, !.responses = 1]
         ELSE [q EXCEPT !.pc = "done", !.pending = {}]]
  /\ searchResultsCache' = [searchResultsCache EXCEPT ![q.ep] =
       MapSet(@, CacheKey(q.ep, q.query), [data |-> NoData, timestamp |-> now])]
  /\ UNCHANGED stored
Fail(r, q) ==
  /\ search' = [search EXCEPT ![r] =
       IF HandlerCatches(q.ep)
         THEN [q EXCEPT !.pc = "done", !.status = 500, !.pending = {}, !.responses = 1]
         ELSE [q EXCEPT !.pc = "done", !.pending = {}]]
  /\ UNCHANGED <<searchResultsCache, stored>>

\* The order of the first checks: the limiter's verdict (429), then the SAM
\* key (400 in the pages handler, 500 in the app router); 0 lets the request go on.
SearchOutcome(ep, ok, samKey) ==
  IF ~ok THEN [status |-> 429, steps |-> <<"rateLimit">>]
  ELSE IF ~samKey THEN [status |-> IF ep = "searchPages" THEN 400 ELSE 500,
                        steps |-> <<"rateLimit", "validate">>]
  ELSE [status |-> 0, steps |-> <<"rateLimit", "validate">>]

\* handler (pages) / GET (app router), up to the first await: method guard
\* (pages), limiter, SAM key, cache lookup, and on a miss the fetch of the
\* opportunity source.
SearchArrive(r, ep, method, xff, in) ==
  /\ module = ep /\ ep \in SearchEndpoints
  /\ search[r].pc \in {"idle", "done"}
  /\ LET base == [IdleSearch EXCEPT !.ep = ep, !.method = method, !.xff = xff,
                                    !.query = in.query, !.semantic = in.semantic,
                                    !.auth = in.auth, !.samKey = in.samKey,
                                    !.started = now]
     IN IF ep = "searchPages" /\ method # "GET"
          THEN /\ search' = [search EXCEPT ![r] =
                    [base EXCEPT !.pc = "done", !.status = 405, !.steps = <<"method">>,
                                 !.responses = 1]]
               /\ UNCHANGED limiterVars
          ELSE LET l == Limit(ep, xff)
                   o == SearchOutcome(ep, l.ok, in.samKey)
                   key == CacheKey(ep, in.query)
                   cache == searchResultsCache[ep]
                   hit == CacheValid(cache, key, now)
                   had == key \in DOMAIN stored[ep]
                   q == [base EXCEPT !.allowed = l.ok,
                           !.steps = (IF ep = "searchPages" THEN <<"method">> ELSE <<>>)
                                     \o o.steps]
                   looked == [q EXCEPT !.steps = @ \o <<"cacheLookup">>,
                                !.lookup = [done |-> TRUE, key |-> key, had |-> had,
                                            age |-> IF had THEN now - stored[ep][key].at ELSE 0,
                                            present |-> key \in DOMAIN cache,
                                            data |-> IF had THEN stored[ep][key].data ELSE NoData,
                                            upstream |-> IF had THEN stored[ep][key].upstream
                                                         ELSE <<>>]]
               IN /\ Limited(ep, xff, l)
                  /\ search' = [search EXCEPT ![r] =
                       IF o.status # 0
                         THEN [q EXCEPT !.pc = "done", !.status = o.status, !.responses = 1]
                       ELSE IF hit
                         THEN [looked EXCEPT !.pc = "done", !.status = 200, !.cached = TRUE,
                                             !.data = cache[key].data, !.responses = 1]
                         ELSE [looked EXCEPT !.pc = "awaitSAM", !.calls = <<"sam">>,
                                             !.steps = @ \o <<"upstream">>]]
  /\ UNCHANGED <<now, module, similarity, clientVars, chat, cacheVars>>

\* Whether the request ranks: semantic === 'true' && keyword, with an LLM key
\* in the Authorization header (pages); keyword.trim() (app router).
WantsRankingWithoutSemantic(q) == Keyword(q.ep, q.query) # ""
WantsRanking(q) ==
  IF q.ep = "searchPages"
    THEN q.semantic /\ Keyword(q.ep, q.query) # "" /\ q.auth
    ELSE Keyword(q.ep, q.query) # ""

\* The opportunities whose generateEmbeddings call does not find its key in
\* the cache and fetches it; Promise.all starts every call before any of them
\* resumes, so each looks at the cache as it is now.
Missing(cache, opportunities) ==
  {i \in 1..Len(opportunities) : ~EmbHas(cache, EmbeddingKey(opportunities[i].text))}
\* The upstream embedding calls of these opportunities, in the order of the map.
RECURSIVE EmbedCallsOf(_, _, _)
EmbedCallsOf(opportunities, miss, i) ==
  IF i > Len(opportunities) THEN <<>>
  ELSE (IF i \in miss THEN <<EmbeddingKey(opportunities[i].text)>> ELSE <<>>)
       \o EmbedCallsOf(opportunities, miss, i + 1)
\* What the calls that find their key return at once.
FromCache(cache, opportunities, miss) ==
  [t \in {opportunities[i].text : i \in (1..Len(opportunities)) \ miss} |->
     EmbGet(cache, EmbeddingKey(t))]

\* performSemanticSearch once the query embedding is there (cache: the
\* embedding cache at this moment; q.vectors holds the query embedding).
AfterQueryEmbedding(r, q, cache) ==
  LET text == Keyword(q.ep, q.query) IN
  IF q.ep = "searchApp"
    THEN Respond(r, [q EXCEPT !.ranked = TRUE],
                 RankApp(cache, q.vectors[text], q.opportunities))
    ELSE LET miss == Missing(cache, q.opportunities)
             got == FromCache(cache, q.opportunities, miss) @@ q.vectors
         IN IF miss = {}
              THEN Respond(r, [q EXCEPT !.ranked = TRUE, !.vectors = got],
                           RankPages(got, text, q.opportunities))
              ELSE /\ search' = [search EXCEPT ![r] =
                        [q EXCEPT !.pc = "awaitOppEmbeds", !.pending = miss, !.vectors = got,
                                  !.calls = @ \o EmbedCallsOf(q.opportunities, miss, 1)]]
                   /\ UNCHANGED <<searchResultsCache, stored>>

\* The opportunity source answers: an error (thrown, 500) or the records.
SamReply(r, ok, list) ==
  /\ search[r].pc = "awaitSAM"
  /\ LET q == [search[r] EXCEPT !.opportunities = list, !.fetched = TRUE]
         cache == embeddingCache[q.ep]
         text == Keyword(q.ep, q.query)
     IN IF ~ok THEN Fail(r, [search[r] EXCEPT !.error = "samError"])
        ELSE IF ~WantsRanking(q) THEN Respond(r, q, list)
        ELSE IF EmbHas(cache, EmbeddingKey(text))
          THEN AfterQueryEmbedding(r,
                 [q EXCEPT !.vectors = (text :> EmbGet(cache, EmbeddingKey(text)))], cache)
          ELSE /\ search' = [search EXCEPT ![r] =
                    [q EXCEPT !.pc = "awaitQueryEmbed", !.calls = @ \o <<EmbeddingKey(text)>>]]
               /\ UNCHANGED <<searchResultsCache, stored>>
  /\ UNCHANGED <<now, limiterVars, module, similarity, clientVars, chat, embeddingCache, orphans>>

\* The embedding upstream answers for the query: generateEmbeddings caches the
\* vector and returns it.  On an error the pages handler falls back to the
\* unranked list, the app router answers 500.
QueryEmbedReply(r, ok) ==
  /\ search[r].pc = "awaitQueryEmbed"
  /\ LET q == search[r]
         text == Keyword(q.ep, q.query)
         cache == EmbSet(embeddingCache[q.ep], EmbeddingKey(text), EmbeddingOf(text))
     IN IF ok
          THEN /\ AfterQueryEmbedding(r, [q EXCEPT !.vectors = (text :> EmbeddingOf(text))], cache)
               /\ embeddingCache' = [embeddingCache EXCEPT ![q.ep] = cache]
        ELSE /\ IF q.ep = "searchPages"
                  THEN Respond(r, [q EXCEPT !.embedFailed = TRUE], q.opportunities)
                  ELSE Fail(r, [q EXCEPT !.embedFailed = TRUE, !.error = "embeddingError"])
             /\ UNCHANGED embeddingCache
  /\ UNCHANGED <<now, limiterVars, module, similarity, clientVars, chat, orphans>>

\* The embedding upstream answers for opportunity i (pages, Promise.all).  On
\* an error Promise.all rejects, the catch returns the unranked list, and the
\* calls still in flight go on without the request.
OppEmbedReply(r, i, ok) ==
  /\ search[r].pc = "awaitOppEmbeds"
  /\ i \in search[r].pending
  /\ LET q == [search[r] EXCEPT !.pending = @ \ {i}]
         text == q.opportunities[i].text
         cache == EmbSet(embeddingCache[q.ep], EmbeddingKey(text), EmbeddingOf(text))
         got == (text :> EmbeddingOf(text)) @@ q.vectors
     IN IF ~ok
          THEN /\ Respond(r, [q EXCEPT !.embedFailed = TRUE], q.opportunities)
               /\ orphans' = orphans \cup {q.opportunities[k].text : k \in q.pending}
               /\ UNCHANGED embeddingCache
        ELSE IF q.pending = {}
          THEN /\ Respond(r, [q EXCEPT !.ranked = TRUE, !.vectors = got],
                          RankPages(got, Keyword(q.ep, q.query), q.opportunities))
               /\ embeddingCache' = [embeddingCache EXCEPT ![q.ep] = cache]
               /\ UNCHANGED orphans
          ELSE /\ search' = [search EXCEPT ![r] = [q EXCEPT !.vectors = got]]
               /\ embeddingCache' = [embeddingCache EXCEPT ![q.ep] = cache]
               /\ UNCHANGED <<searchResultsCache, stored, orphans>>
  /\ UNCHANGED <<now, limiterVars, module, similarity, clientVars, chat>>

\* A generateEmbeddings call that outlived its request gets its answer: it
\* caches the vector, or its rejection is dropped.
OrphanEmbedReply(text, ok) ==
  /\ text \in orphans
  /\ orphans' = orphans \ {text}
  /\ embeddingCache' = [embeddingCache EXCEPT ![module] =
       IF ok THEN EmbSet(@, EmbeddingKey(text), EmbeddingOf(text)) ELSE @]
  /\ UNCHANGED <<now, limiterVars, module, similarity, clientVars, chat, search, searchResultsCache, stored>>

\* The setInterval callback of the pages module: an embedding cache of more
\* than 1000 entries is cut to its last 500 (entries.slice(-500)); the expired
\* result entries are dropped.
TrimEmbeddings(cache) ==
  IF Len(cache) > EMBEDDING_CACHE_MAX
    THEN SubSeq(cache, Len(cache) - EMBEDDING_CACHE_KEEP + 1, Len(cache))
    ELSE cache
Sweep ==
  /\ module = "searchPages"
  /\ \/ Len(embeddingCache["searchPages"]) > EMBEDDING_CACHE_MAX
     \/ \E k \in DOMAIN searchResultsCache["searchPages"] :
          SweepExpired(searchResultsCache["searchPages"][k], now)
  /\ embeddingCache' = [embeddingCache EXCEPT !["searchPages"] = TrimEmbeddings(@)]
  /\ searchResultsCache' = [searchResultsCache EXCEPT !["searchPages"] =
       [k \in {x \in DOMAIN @ : ~SweepExpired(@[x], now)} |-> @[k]]]
  /\ UNCHANGED <<now, limiterVars, module, similarity, clientVars, chat, search, stored, orphans>>

\* The requests of the model: the same two filters in both orders, with and
\* without ranking, and a request without the SAM key.
In(query, semantic, auth, samKey) ==
  [query |-> query, semantic |-> semantic, auth |-> auth, samKey |-> samKey]
\* The caller's SAM key, which the pages handler reads from the query
\* (samApiKey); the app router reads the key from the environment.
SamApiKey == "sam-api-key"
Keyed(query) == query \o << <<"samApiKey", SamApiKey>> >>
SearchInputs(ep) ==
  IF ep = "searchPages"
    THEN { In(Keyed(<< <<"q", "a">>, <<"naicsCode", "n">> >>), FALSE, FALSE, TRUE),
           In(Keyed(<< <<"naicsCode", "n">>, <<"q", "a">> >>), FALSE, FALSE, TRUE),
           In(Keyed(<< <<"q", "a">>, <<"naicsCode", "n">> >>), TRUE, TRUE, TRUE),
           In(<< <<"q", "a">>, <<"naicsCode", "n">> >>, FALSE, FALSE, FALSE) }
    ELSE { In(<< <<"keyword", "a">>, <<"provider", "openai">> >>, FALSE, FALSE, TRUE),
           In(<< <<"provider", "openai">>, <<"keyword", "a">> >>, FALSE, FALSE, TRUE),
           In(<< <<"provider", "openai">> >>, FALSE, FALSE, TRUE),
           In(<< <<"keyword", "a">>, <<"provider", "openai">> >>, FALSE, FALSE, FALSE) }

\* ---- the limiter alone: a call by any caller of any module
RateCall(ep, xff) ==
  /\ Limited(ep, xff, Limit(ep, xff))
  /\ UNCHANGED <<now, module, similarity, clientVars, chat, search, cacheVars>>

Xffs == {"", "ip1"}

NextRate ==
  \/ Tick
  \/ \E ep \in {"chatApp", "searchPages"}, xff \in Xffs : RateCall(ep, xff)

InitRate == Loaded /\ module = "none"
SpecRate == InitRate /\ [][NextRate]_vars

\* ---- the limiter alone, with the calls accepted at each instant recorded
SlidingCall(ep, xff) ==
  LET l == Limit(ep, xff) IN
    /\ rateLimitMap' = [rateLimitMap EXCEPT ![ep] = l.map]
    /\ window' = [window EXCEPT ![ep][clientIp(xff)] = l.win]
    /\ lastCall' = l.call
    /\ recent' = [recent EXCEPT ![ep][clientIp(xff)] = l.rec]
    /\ UNCHANGED <<now, module, similarity, clientVars, chat, search, cacheVars>>

NextWindow ==
  \/ Tick
  \/ \E xff \in Xffs : SlidingCall("chatApp", xff)
  \/ SlidingCall("searchPages", "")

InitWindow == Loaded /\ module = "none"
SpecWindow == InitWindow /\ [][NextWindow]_vars

\* ---- cosineSimilarity alone: one call with any two vectors
Similarity(a, b) ==
  /\ ~similarity.called
  /\ similarity' = [called |-> TRUE, a |-> a, b |-> b, result |-> cosineSimilarity(a, b)]
  /\ UNCHANGED <<now, limiterVars, module, chat, search, cacheVars, clientVars>>

NextSim == \E a \in Vectors, b \in Vectors : Similarity(a, b)

InitSim == Loaded /\ module = "none"
SpecSim == InitSim /\ [][NextSim]_vars

\* ---- the chat handlers with conversations of every shape: one request at a
\* time, its messages any one or two turns of the three roles.
Roles == {"user", "assistant", "system"}
MaxTurns == 2
Conversations == UNION {[1..n -> Roles] : n \in 1..MaxTurns}
FormatBodies ==
  {[GoodBody(p) EXCEPT !.messages = [kind |-> "array", items |-> m]] :
     p \in Providers, m \in Conversations}

NextFormat ==
  \/ \E body \in FormatBodies : ChatAppArrive(1, "", body)
  \/ ChatAppBody(1)
  \/ \E body \in FormatBodies : ChatPagesArrive(1, "POST", "", body)
  \/ \E reply \in ProviderReplies : ChatProviderReply(1, reply)

InitFormat == Loaded /\ module \in ChatEndpoints
SpecFormat == InitFormat /\ [][NextFormat]_vars

\* ---- the handlers: two chat requests in flight, one search request at a time
Next ==
  \/ Tick
  \/ \E r \in Slots, body \in ChatBodies("chatApp") : ChatAppArrive(r, "", body)
  \/ \E r \in Slots : ChatAppBody(r)
  \/ \E r \in Slots, body \in ChatBodies("chatPages") : ChatPagesArrive(r, "POST", "", body)
  \/ \E r \in Slots : ChatPagesArrive(r, "GET", "", GoodBody("openai"))
  \/ \E r \in Slots, reply \in ProviderReplies : ChatProviderReply(r, reply)
  \/ \E ep \in SearchEndpoints : \E in \in SearchInputs(ep) :
       SearchArrive(1, ep, "GET", "", in)
  \/ SearchArrive(1, "searchPages", "POST", "", In(Keyed(<< <<"q", "a">> >>), FALSE, FALSE, TRUE))
  \/ \E list \in SamLists : SamReply(1, TRUE, list)
  \/ SamReply(1, FALSE, <<>>)
  \/ \E ok \in BOOLEAN : QueryEmbedReply(1, ok)
  \/ \E i \in 1..MaxOpps, ok \in BOOLEAN : OppEmbedReply(1, i, ok)
  \/ \E text \in OppTexts, ok \in BOOLEAN : OrphanEmbedReply(text, ok)
  \/ Sweep

Spec == Init /\ [][Next]_vars

\* ---- ranking: the search handlers at one instant of the clock, with result
\* lists that hold equal texts, equal scores, a score of 0, more opportunities
\* than a ranked result keeps, and texts that read like an embedding cache key.
RankLists ==
  { <<Opp(1, "t2"), Opp(2, "t1"), Opp(3, "t2")>>,
    <<Opp(1, "openai:a"), Opp(2, "openai:a"), Opp(3, "openai:a")>>,
    <<>> }
\* Searches that ask for ranking (one of them without the LLM key in the
\* Authorization header), and searches without a semantic query.
RankInputs(ep) ==
  IF ep = "searchPages"
    THEN { In(Keyed(<< <<"q", "a">> >>), TRUE, TRUE, TRUE),
           In(Keyed(<< <<"q", "b">> >>), TRUE, TRUE, TRUE),
           In(Keyed(<< <<"q", "a">>, <<"state", "s">> >>), TRUE, FALSE, TRUE),
           In(Keyed(<< <<"q", "a">>, <<"naicsCode", "n">> >>), FALSE, FALSE, TRUE) }
    ELSE { In(<< <<"provider", "openai">> >>, FALSE, FALSE, TRUE),
           In(<< <<"keyword", "a">>, <<"provider", "openai">> >>, FALSE, FALSE, TRUE),
           In(<< <<"keyword", "b">>, <<"provider", "openai">> >>, FALSE, FALSE, TRUE),
           In(<< <<"keyword", "c">>, <<"provider", "openai">> >>, FALSE, FALSE, TRUE) }

NextRank ==
  \/ \E ep \in SearchEndpoints : \E in \in RankInputs(ep) :
       SearchArrive(1, ep, "GET", "", in)
  \/ \E list \in RankLists : SamReply(1, TRUE, list)
  \/ \E ok \in BOOLEAN : QueryEmbedReply(1, ok)
  \/ \E i \in 1..MaxOpps, ok \in BOOLEAN : OppEmbedReply(1, i, ok)
  \/ \E text \in OppTexts, ok \in BOOLEAN : OrphanEmbedReply(text, ok)
  \/ Sweep

InitRank == Loaded /\ module \in SearchEndpoints
SpecRank == InitRank /\ [][NextRank]_vars

\* ---- overlap: two search requests in flight at one instant of the clock,
\* without ranking; the pages requests carry the SAM key of one of two
\* callers, the app router takes the key from the environment.
OtherSamApiKey == "other-sam-api-key"
KeyedWith(query, key) == query \o << <<"samApiKey", key>> >>
OverlapInputs(ep) ==
  IF ep = "searchPages"
    THEN { In(KeyedWith(<< <<"q", "a">> >>, SamApiKey), FALSE, FALSE, TRUE),
           In(KeyedWith(<< <<"q", "a">> >>, OtherSamApiKey), FALSE, FALSE, TRUE),
           In(KeyedWith(<< <<"q", "b">> >>, SamApiKey), FALSE, FALSE, TRUE) }
    ELSE { In(<< <<"provider", "openai">> >>, FALSE, FALSE, TRUE) }

NextOverlap ==
  \/ \E r \in Slots, ep \in SearchEndpoints : \E in \in OverlapInputs(ep) :
       SearchArrive(r, ep, "GET", "", in)
  \/ \E r \in Slots, list \in SamLists : SamReply(r, TRUE, list)
  \/ \E r \in Slots : SamReply(r, FALSE, <<>>)

InitOverlap == Loaded /\ module \in SearchEndpoints
SpecOverlap == InitOverlap /\ [][NextOverlap]_vars

\* ---- the store's actions.  set: the new state, and the persist middleware
\* writes its partialize to localStorage.
Set(state) ==
  /\ store' = state
  /\ localStorage' = <<partialize(state)>>

serverVars == <<now, limiterVars, module, similarity, chat, search, cacheVars>>

setLLMApiKey(apiKey) ==
  /\ Set([store EXCEPT !.llmConfig.apiKey = apiKey])
  /\ UNCHANGED <<serverVars, exported, validation, retry>>

setLLMProvider(provider) ==
  /\ Set([store EXCEPT !.llmConfig.provider = provider,
                       !.llmConfig.model = FirstModel(provider)])
  /\ UNCHANGED <<serverVars, exported, validation, retry>>

setLLMModel(model) ==
  /\ Set([store EXCEPT !.llmConfig.model = model])
  /\ UNCHANGED <<serverVars, exported, validation, retry>>

\* The sessions the store holds at most, the ids generateUUID gives out in a
\* run, and the messages a session holds at most.
MaxSessions == 2
MaxIds == 2
MaxMessages == 1
SessionIds == 1..MaxIds
MessageIds == 1..MaxMessages

createChatSession(title) ==
  /\ Len(store.chatSessions) < MaxSessions /\ store.uuids < MaxIds
  /\ LET session == [id |-> store.uuids + 1,
                     title |-> OrDefault(title, "New Chat"),
                     messages |-> <<>>,
                     createdAt |-> now, updatedAt |-> now,
                     llmConfig |-> store.llmConfig]
     IN Set([store EXCEPT !.chatSessions = Append(@, session),
                          !.currentSession = <<session>>,
                          !.uuids = @ + 1])
  /\ UNCHANGED <<serverVars, exported, validation, retry>>

\* sessions.map(session => session.id === sessionId ? f(session) : session),
\* for chatSessions and, with the same test, for currentSession.
updateSession(sessionId, updates) ==
  /\ LET f(session) == IF session.id = sessionId
                         THEN [Spread(session, updates) EXCEPT !.updatedAt = now]
                         ELSE session
     IN Set([store EXCEPT
               !.chatSessions = [i \in 1..Len(@) |-> f(@[i])],
               !.currentSession = [i \in 1..Len(@) |-> f(@[i])]])
  /\ UNCHANGED <<serverVars, exported, validation, retry>>

deleteSession(sessionId) ==
  /\ Set([store EXCEPT
            !.chatSessions = SelectSeq(@, LAMBDA x : x.id # sessionId),
            !.currentSession = SelectSeq(@, LAMBDA x : x.id # sessionId)])
  /\ UNCHANGED <<serverVars, exported, validation, retry>>

addMessageToSession(sessionId, message) ==
  /\ \A i \in 1..Len(store.chatSessions) :
       store.chatSessions[i].id = sessionId =>
         Len(store.chatSessions[i].messages) < MaxMessages
  /\ \A i \in 1..Len(store.currentSession) :
       store.currentSession[i].id = sessionId =>
         Len(store.currentSession[i].messages) < MaxMessages
  /\ LET f(session) == IF session.id = sessionId
                         THEN [session EXCEPT !.messages = Append(@, message),
                                              !.updatedAt = now]
                         ELSE session
     IN Set([store EXCEPT
               !.chatSessions = [i \in 1..Len(@) |-> f(@[i])],
               !.currentSession = [i \in 1..Len(@) |-> f(@[i])]])
  /\ UNCHANGED <<serverVars, exported, validation, retry>>

updateMessageInSession(sessionId, messageId, updates) ==
  /\ LET g(msg) == IF msg.id = messageId THEN Spread(msg, updates) ELSE msg
         f(session) == IF session.id = sessionId
                         THEN [session EXCEPT
                                 !.messages = [k \in 1..Len(@) |-> g(@[k])],
                                 !.updatedAt = now]
                         ELSE session
     IN Set([store EXCEPT
               !.chatSessions = [i \in 1..Len(@) |-> f(@[i])],
               !.currentSession = [i \in 1..Len(@) |-> f(@[i])]])
  /\ UNCHANGED <<serverVars, exported, validation, retry>>

clearAllSessions ==
  /\ Set([store EXCEPT !.chatSessions = <<>>, !.currentSession = <<>>])
  /\ UNCHANGED <<serverVars, exported, validation, retry>>

\* exportData: the string holds chatSessions (and uploadedFiles, favorites,
\* settings, searchFilters, which the model does not keep).  One export a run.
exportData ==
  /\ exported = <<>>
  /\ exported' = <<[chatSessions |-> store.chatSessions]>>
  /\ UNCHANGED <<serverVars, store, localStorage, validation, retry>>

\* importData of a string that exportData returned:
\* set(state => ({ ...state, ...importedData })).
importData ==
  /\ exported # <<>>
  /\ Set(Spread(store, exported[1]))
  /\ UNCHANGED <<serverVars, exported, validation, retry>>

NextStore ==
  \/ \E apiKey \in {"", LlmApiKey} : setLLMApiKey(apiKey)
  \/ \E title \in {Undefined, "t"} : createChatSession(title)
  \/ \E id \in SessionIds : updateSession(id, [title |-> "u"])
  \/ \E id \in SessionIds : deleteSession(id)
  \/ \E id \in SessionIds : addMessageToSession(id, [id |-> 1, content |-> "m"])
  \/ \E id \in SessionIds, mid \in MessageIds :
       updateMessageInSession(id, mid, [content |-> "e"])
  \/ clearAllSessions
  \/ exportData
  \/ importData

InitStore == Loaded /\ module = "none"
SpecStore == InitStore /\ [][NextStore]_vars

\* ---- validateLLMConfig against the chat endpoint.  The request it builds:
\* model `${provider}:${model}`, one user message, context { test: true };
\* no Authorization header, no context.apiKey and no apiKey field (apiKey
\* FALSE), and no provider field (the app router's default is 'openai').
ValidateBody(llmConfig) ==
  [json |-> TRUE, apiKey |-> FALSE,
   messages |-> [kind |-> "array", items |-> <<"user">>],
   model |-> <<llmConfig.provider, llmConfig.model>>, provider |-> "openai",
   test |-> TRUE]

\* validateLLMConfig up to its await: false at once without apiKey or model,
\* else the fetch of /api/chat, which the chat handler of the deployment's
\* router takes in slot 1.  (RateCall in NextValidate: the caller's other
\* requests to the same limiter.)
validateLLMConfig ==
  /\ validation.pc = "idle" /\ chat[1].pc = "idle"
  /\ IF store.llmConfig.apiKey = "" \/ store.llmConfig.model = ""
       THEN /\ validation' = [pc |-> "resolved", fetched |-> FALSE, ok |-> FALSE]
            /\ UNCHANGED <<serverVars, store, localStorage, exported, retry>>
       ELSE \/ ChatPagesArrive(1, "POST", "", ValidateBody(store.llmConfig))
            \/ ChatAppArrive(1, "", ValidateBody(store.llmConfig))

\* The response arrives: return response.ok.
ValidateResolved ==
  /\ validation.pc = "idle" /\ chat[1].pc = "done"
  /\ validation' = [pc |-> "resolved", fetched |-> TRUE,
                    ok |-> chat[1].responses = 1 /\ chat[1].status \in 200..299]
  /\ UNCHANGED <<serverVars, store, localStorage, exported, retry>>

NextValidate ==
  \/ Tick
  \/ \E apiKey \in {"", LlmApiKey} : setLLMApiKey(apiKey)
  \/ \E provider \in Providers : setLLMProvider(provider)
  \/ \E model \in {"", "m"} : setLLMModel(model)
  \/ RateCall(module, "")
  \/ validateLLMConfig
  \/ ChatAppBody(1)
  \/ ValidateResolved

InitValidate == Loaded /\ module \in ChatEndpoints
SpecValidate == InitValidate /\ [][NextValidate]_vars

\* ---- retryWithBackoff(fn, maxRetries, baseDelay), cut at its awaits: the
\* call of fn settles, the sleep ends.
\* The largest maxRetries (3 is the source's default) and baseDelay of a call.
MaxRetries == 3
MaxBaseDelay == 2
\* What fn resolves with, and the errors it rejects with.
FnValues == {"v1", "v2"}
FnErrors == {"e1", "e2"}

\* baseDelay * Math.pow(2, i)
DelayLinear(baseDelay, i) == baseDelay * (i + 1)
Delay(baseDelay, i) == baseDelay * Pow2(i)

\* The call: i = 0; the loop test i <= maxRetries, then fn() is called, or
\* the loop is left at once and the trailing throw lastError! runs.
retryWithBackoff(maxRetries, baseDelay) ==
  /\ retry.pc = "idle"
  /\ retry' = IF 0 <= maxRetries
                THEN [NoRetry EXCEPT !.pc = "calling", !.maxRetries = maxRetries,
                                     !.baseDelay = baseDelay, !.calls = 1]
                ELSE [NoRetry EXCEPT !.pc = "rejected", !.maxRetries = maxRetries,
                                     !.baseDelay = baseDelay, !.outcome = Undefined]
  /\ UNCHANGED <<serverVars, store, localStorage, exported, validation>>

\* return await fn()
FnResolves(value) ==
  /\ retry.pc = "calling"
  /\ retry' = [retry EXCEPT !.pc = "resolved", !.value = value]
  /\ UNCHANGED <<serverVars, store, localStorage, exported, validation>>

\* catch: lastError = error; throw it when i === maxRetries, else sleep.
FnRejects(error) ==
  /\ retry.pc = "calling"
  /\ retry' = IF retry.i = retry.maxRetries
                THEN [retry EXCEPT !.pc = "rejected", !.lastError = error,
                                   !.errors = Append(@, error), !.outcome = error]
                ELSE [retry EXCEPT !.pc = "sleeping", !.lastError = error,
                                   !.errors = Append(@, error),
                                   !.waits = Append(@, Delay(retry.baseDelay, retry.i))]
  /\ UNCHANGED <<serverVars, store, localStorage, exported, validation>>

\* The sleep ends: i++, the loop test, the next call of fn (or the trailing
\* throw lastError!).
SleepEnds ==
  /\ retry.pc = "sleeping"
  /\ retry' = IF retry.i + 1 <= retry.maxRetries
                THEN [retry EXCEPT !.pc = "calling", !.i = @ + 1, !.calls = @ + 1]
                ELSE [retry EXCEPT !.pc = "rejected", !.i = @ + 1,
                                   !.outcome = retry.lastError]
  /\ UNCHANGED <<serverVars, store, localStorage, exported, validation>>

NextRetry ==
  \/ \E maxRetries \in (0 - 1)..MaxRetries, baseDelay \in 1..MaxBaseDelay :
       retryWithBackoff(maxRetries, baseDelay)
  \/ \E value \in FnValues : FnResolves(value)
  \/ \E error \in FnErrors : FnRejects(error)
  \/ SleepEnds

InitRetry == Loaded /\ module = "none"
SpecRetry == InitRetry /\ [][NextRetry]_vars

\* ------------------------------------------------------------------ claims

\* C1: counting from the call that opens a window, the first N calls are
\* accepted, a call after them within W of the window start is rejected, and
\* the first call made more than W after the window start (which opens the
\* next window) is accepted and leaves the identity's count at 1.
RateLimiterWindowProperty ==
  lastCall.ep # "none" =>
    LET N == MaxRequests(lastCall.ep) IN
      /\ lastCall.index <= N => lastCall.ok
      /\ lastCall.index > N => ~lastCall.ok
      /\ lastCall.index = 1 => lastCall.count = 1
\* An identity was throttled in its first window, and the call that came
\* after the window had passed was accepted with count 1.
RateLimiterWindowWitness ==
  /\ lastCall.ep = "chatApp" /\ lastCall.ip = "ip1"
  /\ lastCall.index = 1 /\ lastCall.ok /\ lastCall.count = 1
  /\ window["chatApp"]["ip1"].start = RATE_LIMIT_WINDOW + 1
  /\ window["chatApp"]["unknown"].calls = RATE_LIMIT_MAX_REQUESTS + 1
  /\ window["chatApp"]["unknown"].accepted = RATE_LIMIT_MAX_REQUESTS

\* C2: with handlers of one identity interleaved at their awaits, the calls
\* accepted in the identity's window are exactly the stored count, and never
\* more than maxRequests.
NoLostOrDoubleIncrement ==
  \A ep \in Endpoints : \A ip \in DOMAIN rateLimitMap[ep] :
    /\ rateLimitMap[ep][ip].count = window[ep][ip].accepted
    /\ rateLimitMap[ep][ip].count <= MaxRequests(ep)
\* Two handlers of the same identity are suspended at an await, both counted.
NoLostOrDoubleIncrementWitness ==
  /\ \A r \in Slots : chat[r].pc \in {"awaitBody", "awaitProvider"} /\ chat[r].allowed
  /\ chat[1].pc # chat[2].pc
  /\ rateLimitMap["chatApp"]["unknown"].count = 2

\* C3: a request the limiter rejects is answered 429, and no body parsing,
\* validation or upstream call happens for it; whatever request reaches one of
\* these steps has passed the limiter first.  (The method guard of the pages
\* handlers, which answers 405 without consulting the limiter, is routing.)
GuardedSteps == {"parseBody", "validate", "cacheLookup", "cacheWrite", "upstream"}
StepsBefore(steps, name) ==
  {steps[i] : i \in {k \in 1..Len(steps) : \A m \in 1..k : steps[m] # name}}
LimiterFirstOf(q) ==
  /\ ("rateLimit" \in {q.steps[i] : i \in 1..Len(q.steps)} /\ ~q.allowed) =>
       /\ q.status = 429 /\ q.pc = "done"
       /\ q.calls = <<>>
       /\ {q.steps[i] : i \in 1..Len(q.steps)} \cap GuardedSteps = {}
  /\ StepsBefore(q.steps, "rateLimit") \cap GuardedSteps = {}
RateLimitFirst ==
  \A r \in Slots : LimiterFirstOf(chat[r]) /\ LimiterFirstOf(search[r])
\* A throttled chat request with a body that validation would reject, and a
\* throttled search request without the SAM key.
RateLimitFirstChatWitness ==
  \E r \in Slots :
    /\ chat[r].ep = "chatPages" /\ chat[r].status = 429
    /\ ValidatePages(chat[r].body) = 400
RateLimitFirstSearchWitness ==
  \E r \in Slots :
    /\ search[r].ep = "searchPages" /\ search[r].status = 429 /\ ~search[r].samKey
RateLimitFirstWitness == RateLimitFirstChatWitness \/ RateLimitFirstSearchWitness

\* C4: every successful upstream response comes back as a response whose
\* content is the generated text, whose usage has three numbers (0 where the
\* upstream reported none) and whose provider is the requested one.
NormalizedResponseShape ==
  \A r \in Slots :
    (chat[r].pc = "done" /\ chat[r].reply.ok) =>
      /\ chat[r].status = 200
      /\ chat[r].result.content = chat[r].reply.text
      /\ chat[r].result.usage.defined
      /\ chat[r].result.usage.prompt_tokens =
           (IF chat[r].reply.usage THEN Reported.prompt ELSE 0)
      /\ chat[r].result.usage.completion_tokens =
           (IF chat[r].reply.usage THEN Reported.completion ELSE 0)
      /\ chat[r].result.usage.total_tokens =
           chat[r].result.usage.prompt_tokens + chat[r].result.usage.completion_tokens
      /\ chat[r].result.provider = ProviderOf(chat[r].ep, chat[r].body)

\* C5: a chat request without messages (absent, not a sequence, or empty),
\* without model, without apiKey or with an unsupported provider is rejected
\* with a validation error and no upstream call is made for it.
Malformed(ep, body) ==
  \/ body.messages.kind # "array" \/ body.messages.items = <<>>
  \/ body.model = <<>>
  \/ ~body.apiKey
  \/ ProviderOf(ep, body) \notin Providers
MalformedRejected ==
  \A r \in Slots :
    (/\ chat[r].pc \in {"awaitProvider", "done"}
     /\ chat[r].method = "POST" /\ chat[r].allowed
     /\ Malformed(chat[r].ep, chat[r].body)) =>
      /\ chat[r].status \in {400, 401}
      /\ chat[r].calls = <<>>

\* C6: once a search with filters F has succeeded, a later search with the
\* same filters that starts less than the TTL after the entry was stored is
\* answered from the cache, with the stored payload and without a call to the
\* opportunity source.
ServedFromCacheWithinTTL ==
  \A r \in Slots :
    LET q == search[r] IN
      (q.lookup.done /\ q.lookup.had /\ q.lookup.age < CACHE_DURATION) =>
        /\ q.cached /\ q.status = 200
        /\ q.calls = <<>>
        /\ q.data = q.lookup.data

\* C7: in the pages handler a lookup made less than the TTL after the entry
\* was stored returns the entry, and a lookup made TTL or more after it treats
\* the entry as absent, swept or not.
CacheExpiry ==
  \A r \in Slots :
    LET q == search[r] IN
      (q.ep = "searchPages" /\ q.lookup.done) =>
        /\ q.cached <=> (q.lookup.had /\ q.lookup.age < CACHE_DURATION)
        /\ q.cached => q.data = q.lookup.data
\* A lookup finds an entry that the sweep has not removed, TTL after it was
\* stored, and treats it as absent.
CacheExpiryWitness ==
  \E r \in Slots :
    /\ search[r].ep = "searchPages" /\ search[r].lookup.had /\ search[r].lookup.present
    /\ search[r].lookup.age = CACHE_DURATION
    /\ ~search[r].cached /\ search[r].calls # <<>>

\* C8: a request whose query holds the same name/value pairs as the request
\* that wrote an entry, in whatever order, looks the cache up under that
\* entry's key.
SamePairs(a, b) == {a[i] : i \in 1..Len(a)} = {b[i] : i \in 1..Len(b)}
CacheKeyOrderInsensitive ==
  \A r \in Slots : \A ep \in SearchEndpoints : \A k \in DOMAIN stored[ep] :
    (/\ search[r].ep = ep /\ search[r].lookup.done
     /\ SamePairs(search[r].query, stored[ep][k].query)) =>
      search[r].lookup.key = k
\* A cache hit on an entry written by a request with the parameters in the
\* other order.
CacheKeyOrderInsensitiveWitness ==
  \E r \in Slots :
    LET q == search[r] IN
      /\ q.cached /\ q.lookup.key \in DOMAIN stored[q.ep]
      /\ stored[q.ep][q.lookup.key].query # q.query
      /\ SamePairs(q.query, stored[q.ep][q.lookup.key].query)

\* C9: every entry of the result cache holds the result set as the
\* opportunity source returned it, before ranking, filtering and truncation.
CacheHoldsUpstreamResult ==
  \A ep \in SearchEndpoints : \A k \in DOMAIN searchResultsCache[ep] :
    searchResultsCache[ep][k].data.opportunities = stored[ep][k].upstream

\* C10: a search without a semantic query returns the opportunities in the
\* order the opportunity source returned them, each with relevance score 0.
SemanticQuery(q) ==
  IF q.ep = "searchPages" THEN q.semantic ELSE Keyword(q.ep, q.query) # ""
UnrankedWithoutSemantic ==
  \A r \in Slots :
    LET q == search[r] IN
      (q.pc = "done" /\ q.status = 200 /\ ~SemanticQuery(q)) =>
        /\ q.data.opportunities = (IF q.cached THEN q.lookup.upstream ELSE q.opportunities)
        /\ \A i \in 1..Len(q.data.opportunities) : q.data.opportunities[i].relevanceScore = 0

\* C11: when an embedding call of a semantic search fails, the search still
\* succeeds and returns the unranked list of the upstream fetch.
EmbeddingFailureFallsBack ==
  \A r \in Slots :
    LET q == search[r] IN
      (q.pc = "done" /\ q.embedFailed) =>
        /\ q.status = 200
        /\ q.data.opportunities = q.opportunities

\* C12: when a semantic search ranks (every embedding call succeeded), the
\* query and the text of every returned opportunity have been embedded, and
\* each opportunity's score is the similarity of its own embedding and the
\* query's.
ScoresFromOwnEmbeddings ==
  \A r \in Slots :
    LET q == search[r]
        text == Keyword(q.ep, q.query)
        res == q.data.opportunities
    IN (q.pc = "done" /\ q.ranked) =>
         /\ text \in DOMAIN q.vectors
         /\ \A i \in 1..Len(q.opportunities) : q.opportunities[i].text \in DOMAIN q.vectors
         /\ \A i \in 1..Len(res) :
              res[i].relevanceScore =
                cosineSimilarity(EmbeddingOf(text), EmbeddingOf(res[i].text)).value

\* C13: the ranked result is in descending order of score, and opportunities
\* of equal score are in the order the opportunity source returned them.
PositionOf(list, id) == CHOOSE k \in 1..Len(list) : list[k].id = id
RankedOrderStable ==
  \A r \in Slots :
    LET q == search[r]
        res == q.data.opportunities
    IN (q.pc = "done" /\ q.ranked) =>
         \A i, j \in 1..Len(res) :
           i < j =>
             \/ res[i].relevanceScore > res[j].relevanceScore
             \/ /\ res[i].relevanceScore = res[j].relevanceScore
                /\ PositionOf(q.opportunities, res[i].id) < PositionOf(q.opportunities, res[j].id)
\* A ranked result whose first two items have the same score and stood first
\* and third in the upstream list, the second of that list scoring less.
RankedOrderStableWitness ==
  \E r \in Slots :
    LET q == search[r]
        res == q.data.opportunities
    IN /\ q.pc = "done" /\ q.ranked /\ Len(res) >= 2 /\ Len(q.opportunities) = 3
       /\ res[1].id = q.opportunities[1].id /\ res[2].id = q.opportunities[3].id
       /\ res[1].relevanceScore = res[2].relevanceScore
       /\ q.opportunities[2].text # q.opportunities[1].text

\* C14: the ranked result of a semantic search holds only opportunities with
\* a score above 0.
RankedOnlyPositive ==
  \A r \in Slots :
    LET res == search[r].data.opportunities IN
      (search[r].pc = "done" /\ search[r].ranked) =>
        \A i \in 1..Len(res) : res[i].relevanceScore > 0

\* C15: the ranked result holds at most TOP_N opportunities, and no
\* opportunity left out scores higher than one that is in it.
ScoreOf(q, o) ==
  IF q.ep = "searchPages"
    THEN Scored(q.vectors, Keyword(q.ep, q.query), o).relevanceScore
    ELSE ScoredApp(embeddingCache[q.ep], q.vectors[Keyword(q.ep, q.query)], o).relevanceScore
RankedTopN ==
  \A r \in Slots :
    LET q == search[r]
        res == q.data.opportunities
        kept == {res[i].id : i \in 1..Len(res)}
    IN (q.pc = "done" /\ q.ranked) =>
         /\ Len(res) <= TOP_N
         /\ \A k \in 1..Len(q.opportunities) :
              q.opportunities[k].id \notin kept =>
                \A i \in 1..Len(res) : res[i].relevanceScore >= ScoreOf(q, q.opportunities[k])

\* C16: no request fetches the embedding of one (provider, text) pair from the
\* upstream twice, also when the calls for the pair run concurrently.
NoRepeatedEmbeddingCall ==
  \A r \in Slots :
    \A i, j \in 1..Len(search[r].calls) :
      i < j => search[r].calls[i] # search[r].calls[j]

\* C17: the embedding cache never holds more than the configured maximum of
\* entries.
EmbeddingCacheBounded ==
  \A ep \in SearchEndpoints : Len(embeddingCache[ep]) <= EMBEDDING_CACHE_MAX

\* C18: when the upstream chat provider answers with a non-success HTTP
\* status, the response to the caller carries that same status code.
UpstreamStatusPreserved ==
  \A r \in Slots :
    (chat[r].pc = "done" /\ ~chat[r].reply.ok /\ chat[r].reply.status # 0) =>
      chat[r].status = chat[r].reply.status

\* C19: when the provider answers non-2xx, the error message given to the
\* caller is the message of the provider's error body when the body parses,
\* and the HTTP status text when it does not.
ErrorMessageFromBodyOrStatusText ==
  \A r \in Slots :
    (chat[r].pc = "done" /\ ~chat[r].reply.ok /\ chat[r].reply.status # 0) =>
      chat[r].error = (IF chat[r].reply.parseable THEN "bodyMessage" ELSE "statusText")

\* C20: a handler that has ended has sent exactly one response, with a status
\* and a structured body, whatever the input and whatever the upstream did; a
\* handler that has not ended has sent none.
StructuredStatuses == {200, 400, 401, 405, 429, 500}
Answered(q) ==
  /\ q.pc = "done" => (q.responses = 1 /\ q.status \in StructuredStatuses)
  /\ q.pc # "done" => q.responses = 0
ExactlyOneResponse ==
  \A r \in Slots : Answered(chat[r]) /\ Answered(search[r])
\* The provider fetch of a pages chat request rejected, or the opportunity
\* source failed a pages search, and the caller got the 500 of the catch.
ExactlyOneResponseWitness ==
  \/ \E r \in Slots :
       /\ chat[r].ep = "chatPages" /\ chat[r].pc = "done" /\ chat[r].reply.transport
       /\ chat[r].responses = 1 /\ chat[r].status = 500 /\ chat[r].error = "fetchFailed"
  \/ \E r \in Slots :
       /\ search[r].ep = "searchPages" /\ search[r].pc = "done" /\ search[r].calls = <<"sam">>
       /\ search[r].responses = 1 /\ search[r].status = 500

\* C26: cosineSimilarity applied to two vectors of unequal length throws the
\* dimension-mismatch error and yields no number.
DimensionMismatchThrows ==
  (similarity.called /\ Len(similarity.a) # Len(similarity.b)) =>
    similarity.result = DimensionMismatch
\* A call whose second vector is the longer one ended with the throw.
DimensionMismatchThrowsWitness ==
  /\ similarity.called /\ Len(similarity.a) = 1 /\ Len(similarity.b) = 2
  /\ similarity.result.kind = "thrown"

\* C27: for a non-zero vector v, cosineSimilarity(v, v) is 1.0 and
\* cosineSimilarity(v, -v) is -1.0, and for vectors of equal length
\* cosineSimilarity(a, b) = cosineSimilarity(b, a).
Negated(v) == [i \in 1..Len(v) |-> 0 - v[i]]
SimilarityIdentities ==
  (similarity.called /\ similarity.result.kind = "number") =>
    /\ similarity.b = similarity.a => similarity.result.value = One
    /\ similarity.b = Negated(similarity.a) => similarity.result.value = 0 - One
    /\ similarity.result = cosineSimilarity(similarity.b, similarity.a)

\* C24: the limiter is a sliding window: for every identity, the calls
\* accepted in any interval of length windowSizeMs (here the one that ends at
\* the identity's last call) are at most maxRequests.
SlidingWindowLimit ==
  \A ep \in Endpoints : \A ip \in {"ip1", "unknown"} :
    SumUpTo(recent[ep][ip].counts, WindowSize(ep)) <= MaxRequests(ep)

\* C29: a call that the limiter rejects leaves the map as it was: neither the
\* count nor the window start of the identity is modified.
RejectionLeavesWindow ==
  [][(/\ lastCall'.ep # "none" /\ ~lastCall'.ok
      /\ (lastCall' # lastCall \/ window' # window)) =>
       rateLimitMap' = rateLimitMap]_vars
\* A call was rejected after the instant the window opened, and the entry
\* still holds that instant and the full count.
RejectionLeavesWindowWitness ==
  /\ lastCall.ep = "chatApp" /\ ~lastCall.ok
  /\ rateLimitMap["chatApp"][lastCall.ip].timestamp = window["chatApp"][lastCall.ip].start
  /\ rateLimitMap["chatApp"][lastCall.ip].timestamp < now
  /\ rateLimitMap["chatApp"][lastCall.ip].count = RATE_LIMIT_MAX_REQUESTS

\* C30: the first call an identity makes more than windowSizeMs after its
\* window start is accepted, however many calls the window accepted or rejected.
ThrottledAcceptedAgain ==
  (lastCall.ep # "none" /\ lastCall.index = 1 /\ lastCall.prev > 0) => lastCall.ok
\* The identity was throttled in the window before, and its call after the
\* window was accepted.
ThrottledAcceptedAgainWitness ==
  /\ lastCall.ep = "searchPages" /\ lastCall.index = 1 /\ lastCall.ok
  /\ lastCall.prev = CallCap(SAM_RATE_LIMIT_MAX_REQUESTS)

\* C21: when a key a call needs is absent (the SAM key of a search, the LLM
\* key of a search that asks for ranking, the provider key of a chat), the
\* call is answered with a validation error: not with an internal error, and
\* not by leaving out the step that needs the key.
KeyAbsenceIsValidationError ==
  /\ \A r \in Slots :
       LET q == search[r] IN
         (q.pc = "done" /\ q.method = "GET" /\ q.allowed) =>
           /\ ~q.samKey => q.status \in {400, 401}
           /\ (/\ q.ep = "searchPages" /\ q.samKey /\ ~q.cached
               /\ q.semantic /\ Keyword(q.ep, q.query) # "" /\ ~q.auth) =>
                q.status \in {400, 401}
  /\ \A r \in Slots :
       LET q == chat[r] IN
         (/\ q.pc = "done" /\ q.method = "POST" /\ q.allowed /\ q.body.json
          /\ ~q.body.apiKey) =>
           (q.status \in {400, 401} /\ q.calls = <<>>)

\* C22: a chat request that passed the limiter and the validation has made
\* exactly one upstream call, to the adapter of the selected provider.
WellFormed(ep, body) ==
  /\ body.json /\ ~Malformed(ep, body)
  /\ ep = "chatPages" => Len(body.model) >= 2
OneUpstreamCall ==
  \A r \in Slots :
    LET q == chat[r] IN
      (/\ q.pc \in {"awaitProvider", "done"} /\ q.method = "POST" /\ q.allowed
       /\ WellFormed(q.ep, q.body)) =>
        q.calls = <<ProviderOf(q.ep, q.body)>>

\* C23: no turn that the caller gave the role system is part of the request
\* sent to the provider, whatever the provider.
SystemTurnsRemoved ==
  \A r \in Slots :
    \A i \in 1..Len(chat[r].request) : chat[r].request[i].from # "system"

\* C25: a search without a semantic query, for which the opportunity source
\* returned k records (k >= 0), is answered 200 with exactly those records
\* and the total k.
UnrankedReturnsAll ==
  \A r \in Slots :
    LET q == search[r] IN
      (q.pc = "done" /\ q.fetched /\ ~SemanticQuery(q)) =>
        /\ q.status = 200
        /\ q.data.opportunities = q.opportunities
        /\ q.data.total = Len(q.opportunities)
\* The opportunity source returned no record and the search succeeded with
\* total 0; or it returned more records than a ranking keeps, and all came back.
UnrankedReturnsAllWitness ==
  \E r \in Slots :
    LET q == search[r] IN
      /\ q.pc = "done" /\ q.fetched /\ ~SemanticQuery(q) /\ q.status = 200
      /\ q.opportunities = <<>> /\ q.data.total = 0 /\ q.ep = "searchPages"

CountAndStartInRange ==
  \A ep \in Endpoints : \A ip \in DOMAIN rateLimitMap[ep] :
    /\ 1 <= rateLimitMap[ep][ip].count
    /\ rateLimitMap[ep][ip].count <= MaxRequests(ep)
    /\ rateLimitMap[ep][ip].timestamp <= now
\* An identity has used its window up, was rejected after that, and its
\* window start lies in the past.
CountAndStartInRangeWitness ==
  /\ lastCall.ep = "searchPages" /\ ~lastCall.ok
  /\ rateLimitMap["searchPages"][lastCall.ip].count = SAM_RATE_LIMIT_MAX_REQUESTS
  /\ rateLimitMap["searchPages"][lastCall.ip].timestamp < now

\* C32: a call of a limiter for one identity leaves the entry and the window
\* of every other identity, and the whole map of every other limiter, as they
\* were; and its verdict is the one the limiter gives on the caller's own
\* entry alone.
OwnEntry(ep, ip) ==
  IF ip \in DOMAIN rateLimitMap[ep] THEN MapSet(EmptyMap, ip, rateLimitMap[ep][ip])
  ELSE EmptyMap
WindowsIndependent ==
  [][(now' = now) =>
       /\ \A e \in Endpoints : e # lastCall'.ep => rateLimitMap'[e] = rateLimitMap[e]
       /\ \A e \in Endpoints : \A i \in DOMAIN rateLimitMap[e] :
            (e # lastCall'.ep \/ i # lastCall'.ip) =>
              /\ i \in DOMAIN rateLimitMap'[e]
              /\ rateLimitMap'[e][i] = rateLimitMap[e][i]
       /\ \A e \in Endpoints : \A i \in {"ip1", "unknown"} :
            (e # lastCall'.ep \/ i # lastCall'.ip) => window'[e][i] = window[e][i]
       /\ lastCall'.ok =
            checkRateLimit(OwnEntry(lastCall'.ep, lastCall'.ip), lastCall'.ip, now,
                           WindowSize(lastCall'.ep), MaxRequests(lastCall'.ep)).ok]_vars
\* One identity of the chat limiter is throttled while another identity of
\* the same limiter and the search limiter have windows of their own: the
\* other identity's window opened later and has room, and so has the search
\* limiter's.
WindowsIndependentWitness ==
  /\ {"ip1", "unknown"} \subseteq DOMAIN rateLimitMap["chatApp"]
  /\ "unknown" \in DOMAIN rateLimitMap["searchPages"]
  /\ lastCall.ep = "chatApp" /\ lastCall.ip = "ip1" /\ ~lastCall.ok
  /\ rateLimitMap["chatApp"]["unknown"].count = 1
  /\ rateLimitMap["chatApp"]["unknown"].timestamp > rateLimitMap["chatApp"]["ip1"].timestamp
  /\ rateLimitMap["searchPages"]["unknown"].count = RATE_LIMIT_MAX_REQUESTS + 1

\* C33: the sweep removes from the result cache only entries that a lookup
\* at that moment already treats as absent, and leaves the others as they
\* are: for every key, a lookup at the moment of the sweep or later gives
\* the same result with the sweep as without it.
SweepOnlyReclaims ==
  [][(search' = search /\ searchResultsCache' # searchResultsCache) =>
       /\ searchResultsCache'["searchApp"] = searchResultsCache["searchApp"]
       /\ LET old == searchResultsCache["searchPages"]
              new == searchResultsCache'["searchPages"]
          IN /\ DOMAIN new \subseteq DOMAIN old
             /\ \A k \in DOMAIN new : new[k] = old[k]
             /\ \A k \in (DOMAIN old) \ (DOMAIN new) : ~CacheValid(old, k, now)
             /\ \A k \in DOMAIN old : \A t \in now..MaxTime :
                  CacheValid(new, k, t) <=> CacheValid(old, k, t)]_vars
\* The sweep has removed an entry, and a later request with the entry's key
\* fetched from the opportunity source.
SweepOnlyReclaimsWitness ==
  \E r \in Slots :
    LET q == search[r] IN
      /\ q.ep = "searchPages" /\ q.lookup.done /\ q.lookup.had /\ ~q.lookup.present
      /\ ~q.cached /\ q.calls # <<>>

OverlappingFetchOnce ==
  \A r1 \in Slots : \A r2 \in Slots :
    (r1 # r2 /\ search[r1].pc = "awaitSAM" /\ search[r2].pc = "awaitSAM") =>
      search[r1].lookup.key # search[r2].lookup.key

\* C36: a request of the pages handler that is answered from the result
\* cache carries the SAM key of the request that wrote the entry.
CachedOnlyForSameKey ==
  [][\A r \in Slots :
       (search'[r] # search[r] /\ search'[r].cached) =>
         QueryGet(stored[search'[r].ep][search'[r].lookup.key].query, "samApiKey")
           = QueryGet(search'[r].query, "samApiKey")]_vars

\* C37: the state persisted to localStorage holds the LLM API key nowhere:
\* not in llmConfig and not in the llmConfig of a chat session.
PersistedWithoutKey ==
  \A k \in 1..Len(localStorage) :
    /\ localStorage[k].llmConfig.apiKey # LlmApiKey
    /\ \A i \in 1..Len(localStorage[k].chatSessions) :
         localStorage[k].chatSessions[i].llmConfig.apiKey # LlmApiKey

\* C38: currentSession is null or is a session of chatSessions: a session
\* there has its id, its title and its messages.
CurrentSessionListed ==
  \A c \in 1..Len(store.currentSession) :
    \E i \in 1..Len(store.chatSessions) :
      /\ store.chatSessions[i].id = store.currentSession[c].id
      /\ store.chatSessions[i].title = store.currentSession[c].title
      /\ store.chatSessions[i].messages = store.currentSession[c].messages

\* C39: a call of validateLLMConfig whose request reached the chat endpoint
\* (so apiKey and model were set, with a supported provider) and was not
\* rate limited resolves to true.
ValidationSucceeds ==
  (validation.pc = "resolved" /\ validation.fetched /\ chat[1].status # 429) =>
    validation.ok

\* C40: retryWithBackoff calls fn at most maxRetries + 1 times; it resolves
\* with the value of the first call of fn that resolves, without another
\* call; before the call after the i-th failed attempt (i from 0) it has
\* waited baseDelay * 2^i; and it rejects only after maxRetries + 1 failed
\* attempts, with the error of the last one.
RECURSIVE TwoToThe(_)
TwoToThe(i) == IF i = 0 THEN 1 ELSE 2 * TwoToThe(i - 1)
RetryContract ==
  /\ retry.calls <= retry.maxRetries + 1
  /\ \A k \in 1..Len(retry.waits) : retry.waits[k] = retry.baseDelay * TwoToThe(k - 1)
  /\ retry.pc = "calling" =>
       Len(retry.errors) = retry.calls - 1 /\ Len(retry.waits) = retry.calls - 1
  /\ retry.pc = "resolved" =>
       /\ retry.value \in FnValues
       /\ retry.calls = Len(retry.errors) + 1
  /\ (retry.pc = "rejected" /\ retry.maxRetries >= 0) =>
       /\ retry.calls = retry.maxRetries + 1
       /\ Len(retry.errors) = retry.maxRetries + 1
       /\ Len(retry.waits) = retry.maxRetries
       /\ retry.outcome = retry.errors[Len(retry.errors)]
\* A call with maxRetries = 3 and baseDelay = 2 has failed four times with
\* different errors, waited 2, 4 and 8, and rejected with the last error.
RetryContractWitness ==
  /\ retry.pc = "rejected" /\ retry.maxRetries = 3 /\ retry.baseDelay = 2
  /\ retry.errors = <<"e1", "e1", "e1", "e2">> /\ retry.outcome = "e2"
  /\ retry.waits = <<2, 4, 8>>

========================================================================
